---- MODULE Spec2Model ----
(***************************************************************************)
(* The trust and liveness core of the MCP server registry: ownership       *)
(* verification (verification/views.py, serializers.py, models.py), health *)
(* checks and uptime aggregation (verification/models.py, tasks.py) and    *)
(* webhook delivery (webhooks/tasks.py, views.py).                         *)
(*                                                                         *)
(* The relational store runs in autocommit mode: every ORM statement is    *)
(* its own transaction, and Model.save() writes EVERY column of the row    *)
(* from the in-memory instance.  An operation therefore keeps a private    *)
(* copy of each row it loaded (fields req, srv, dlv below) and writes the  *)
(* whole copy back on save.                                                *)
(*                                                                         *)
(* Time is a clock of ticks.  The three durations of the code (30-day      *)
(* uptime window, token expiry, check interval) are one tick each.         *)
(***************************************************************************)
EXTENDS Integers, Sequences, FiniteSets, TLC

\* ------------------------------------------------------------- bounds
MaxTime == 2
MaxRequests == 2
MaxCompletes == 2
MaxTasks == 2
MaxChecks == 3
MaxDeliveries == 1
MaxExecs == 2

\* ---------------------------------------------------------- constants
\* timezone.timedelta(days=30), in ticks
WindowTicks == 1
\* settings.VERIFICATION_TOKEN_EXPIRY, in ticks
TokenExpiry == 1
\* settings.VERIFICATION_CHECK_INTERVAL, in ticks
CheckInterval == 1

NoTime == 0 - 1
\* the '' a CharField holds when no value was given
EmptyToken == 0
NoServer == "none"

CheckOrder_Twice == <<"ownership", "health", "capabilities", "capabilities">>
CheckOrder == <<"ownership", "health", "capabilities", "security">>
CheckTypes == {"ownership", "health", "capabilities", "security"}
ActiveStatuses == {"pending", "in_progress"}
Methods == {"dns", "file", "meta_tag"}

VARIABLES
    now,           \* timezone.now()
    server,        \* table servers_server: id -> row
    vreqs,         \* table verification_verificationrequest, in insertion order
    checks,        \* table verification_verificationcheck: request -> check_type -> status
    healthChecks,  \* table verification_healthcheck, in insertion order
    rq,            \* RequestVerificationView.post executions
    cp,            \* CompleteVerificationView.post executions
    hc,            \* check_server_health / initiate_verification task executions
    webhooks,      \* table webhooks_webhook: id -> row
    deliveries,    \* table webhooks_webhookdelivery, in insertion order
    ex,            \* task messages and executions of the webhook tasks
    wire,          \* per delivery: what was sent, answered and scheduled so far
    calc           \* one call of a function without side effects: arguments and result

coreVars == <<now, server, vreqs, checks, healthChecks, rq, cp, hc>>
hookVars == <<webhooks, deliveries, ex, wire>>
calcVars == <<calc>>
vars == <<now, server, vreqs, checks, healthChecks, rq, cp, hc,
          webhooks, deliveries, ex, wire, calc>>

\* ------------------------------------------------------------ helpers
RECURSIVE GCD(_, _)
GCD(a, b) == IF b = 0 THEN a ELSE GCD(b, a % b)

\* (up_checks / total_checks) * 100 as an exact fraction <<numerator, denominator>>
Percent(up, total) ==
    LET g == GCD(100 * up, total) IN <<(100 * up) \div g, total \div g>>

NewServer(t) ==
    [verified |-> FALSE, is_active |-> TRUE, uptime |-> <<100, 1>>,
     last_checked |-> t, status_message |-> ""]

NewRequest(s) ==
    [server |-> s, status |-> "pending", token |-> EmptyToken, expiry |-> NoTime,
     method |-> "", completed_at |-> NoTime]

NoRow == NewRequest(NoServer)
NoSrv == NewServer(NoTime)

is_token_valid_Inclusive(req, t) == t <= req.expiry

\* VerificationRequest.is_token_valid
is_token_valid(req, t) == t < req.expiry

RecentChecks_AnyServer(rows, s, t) ==
    {i \in DOMAIN rows : rows[i].created_at >= t - WindowTicks}

\* the rows of the window query of HealthCheck.save
RecentChecks(rows, s, t) ==
    {i \in DOMAIN rows : rows[i].server = s /\ rows[i].created_at >= t - WindowTicks}

UpChecks(rows, s, t) == {i \in RecentChecks(rows, s, t) : rows[i].is_up}

\* the in-memory changes HealthCheck.save makes to self.server when total_checks > 0
Aggregated(srv, total, up, is_up, created_at) ==
    LET base == [srv EXCEPT !.uptime = Percent(up, total), !.last_checked = created_at]
    IN  IF ~is_up /\ srv.is_active
        THEN [base EXCEPT !.status_message = "Down during automatic health check",
                          !.is_active = FALSE]
        ELSE IF is_up /\ ~srv.is_active
        THEN [base EXCEPT !.status_message = "Restored during automatic health check",
                          !.is_active = TRUE]
        ELSE base

NewHealthCheck(s, is_up, t) == [server |-> s, is_up |-> is_up, created_at |-> t]

\* executions are numbered in the order they start
NextFree(f, i) == IF i = 1 THEN TRUE ELSE f[i - 1].pc # "idle"

\* ------------------------------------------------- Request (views.py 41-80)
IdleRq == [pc |-> "idle", sid |-> NoServer, rid |-> 0, result |-> "none", seen |-> "none"]

\* existing_request = VerificationRequest.objects.filter(server, status__in).first()
ExistingRequests(s) ==
    {r \in DOMAIN vreqs : vreqs[r].server = s /\ vreqs[r].status \in ActiveStatuses}

FirstOf(S) == CHOOSE r \in S : \A o \in S : o <= r

GuardRejects_PendingOnly(s) ==
    \E r \in DOMAIN vreqs : vreqs[r].server = s /\ vreqs[r].status = "pending"

GuardRejects(s) == ExistingRequests(s) # {}

RequestGuard(q, s) ==
    /\ rq[q].pc = "idle"
    /\ NextFree(rq, q)
    /\ s \in DOMAIN server
    /\ IF GuardRejects(s)
       THEN rq' = [rq EXCEPT ![q] = [pc |-> "done", sid |-> s, rid |-> 0,
                       result |-> "conflict",
                       seen |-> vreqs[FirstOf(ExistingRequests(s))].status]]
       ELSE rq' = [rq EXCEPT ![q] = [pc |-> "insert", sid |-> s, rid |-> 0,
                       result |-> "none", seen |-> "none"]]
    /\ UNCHANGED hookVars
    /\ UNCHANGED calcVars
    /\ UNCHANGED <<now, server, vreqs, checks, healthChecks, cp, hc>>

\* VerificationRequest.objects.create(**validated_data): the row is inserted with
\* the field defaults; verification_token is unique.
TokenTaken(tok) == \E r \in DOMAIN vreqs : vreqs[r].token = tok

RequestInsert(q) ==
    /\ rq[q].pc = "insert"
    /\ IF TokenTaken(EmptyToken)
       THEN /\ rq' = [rq EXCEPT ![q].pc = "done", ![q].result = "error"]
            /\ UNCHANGED <<vreqs, checks>>
       ELSE /\ vreqs' = Append(vreqs, NewRequest(rq[q].sid))
            /\ checks' = Append(checks, <<>>)
            /\ rq' = [rq EXCEPT ![q].pc = "token", ![q].rid = Len(vreqs) + 1]
    /\ UNCHANGED hookVars
    /\ UNCHANGED calcVars
    /\ UNCHANGED <<now, server, healthChecks, cp, hc>>

\* VerificationRequest.generate_verification_token; secrets.token_urlsafe(32)
\* is a fresh value, here the row's number.
RequestToken(q) ==
    /\ rq[q].pc = "token"
    /\ vreqs' = [vreqs EXCEPT ![rq[q].rid].token = rq[q].rid,
                              ![rq[q].rid].expiry = now + TokenExpiry]
    /\ rq' = [rq EXCEPT ![q].pc = "checks"]
    /\ UNCHANGED hookVars
    /\ UNCHANGED calcVars
    /\ UNCHANGED <<now, server, checks, healthChecks, cp, hc>>

\* the four VerificationCheck.objects.create calls, one statement each
NextCheckType(r) == CheckOrder[Cardinality(DOMAIN checks[r]) + 1]

WithCheck(f, t, st) == [x \in DOMAIN f \cup {t} |-> IF x = t THEN st ELSE f[x]]

RequestCheck(q) ==
    /\ rq[q].pc = "checks"
    /\ LET r == rq[q].rid
           t == NextCheckType(r)
       IN  /\ checks' = [checks EXCEPT ![r] = WithCheck(checks[r], t, "pending")]
           /\ rq' = IF t = CheckOrder[4]
                    THEN [rq EXCEPT ![q].pc = "done", ![q].result = "ok"]
                    ELSE rq
    /\ UNCHANGED hookVars
    /\ UNCHANGED calcVars
    /\ UNCHANGED <<now, server, vreqs, healthChecks, cp, hc>>

\* ------------------------------------------ Complete (views.py 128-226)
IdleCp == [pc |-> "idle", rid |-> 0, req |-> NoRow, srv |-> NoSrv, result |-> "none",
           failed |-> {}]

\* a returned call: its response, its instances dropped
Finished(r, res) == [IdleCp EXCEPT !.pc = "done", !.rid = r, !.result = res]

\* the caller learns a request's id from the response of its Request
Issued(r) == \A q \in DOMAIN rq : rq[q].rid = r => rq[q].pc = "done"

\* get_object_or_404(VerificationRequest, id, status__in=['pending', 'in_progress'])
Completable(req) == req.status \in ActiveStatuses

\* lines 128-155: load the request and its server, check the token, save
\* method and status in_progress
CompleteBegin(c, r, m) ==
    /\ cp[c].pc = "idle"
    /\ NextFree(cp, c)
    /\ r \in DOMAIN vreqs
    /\ Issued(r)
    /\ IF ~Completable(vreqs[r])
       THEN /\ cp' = [cp EXCEPT ![c] = Finished(r, "not_found")]
            /\ UNCHANGED vreqs
       ELSE IF ~is_token_valid(vreqs[r], now)
       THEN /\ cp' = [cp EXCEPT ![c] = Finished(r, "expired")]
            /\ UNCHANGED vreqs
       ELSE LET req == [vreqs[r] EXCEPT !.method = m, !.status = "in_progress"]
            IN  /\ vreqs' = [vreqs EXCEPT ![r] = req]
                /\ cp' = [cp EXCEPT ![c] = [pc |-> "ownership", rid |-> r, req |-> req,
                                            srv |-> server[req.server], result |-> "none",
                                            failed |-> {}]]
    /\ UNCHANGED hookVars
    /\ UNCHANGED calcVars
    /\ UNCHANGED <<now, server, checks, healthChecks, rq, hc>>

\* check = verification_request.checks.get(check_type=t); check.status = st; check.save()
SetCheck(f, t, st) == [f EXCEPT ![t] = st]

PassFail(ok) == IF ok THEN "passed" ELSE "failed"

CompleteOwnership_ReturnEarly(c, ok) ==
    /\ cp[c].pc = "ownership"
    /\ LET r == cp[c].rid IN
       /\ checks' = [checks EXCEPT ![r] = SetCheck(checks[r], "ownership", PassFail(ok))]
       /\ IF ok
          THEN cp' = [cp EXCEPT ![c].pc = "health"]
          ELSE cp' = [cp EXCEPT ![c] = Finished(r, "ownership_failed")]
       /\ UNCHANGED vreqs
    /\ UNCHANGED hookVars
    /\ UNCHANGED calcVars
    /\ UNCHANGED <<now, server, healthChecks, rq, hc>>

\* lines 157-178 and 219-226: the ownership proof (outbound I/O, outcome ok),
\* the ownership check row, and the short circuit when it failed
CompleteOwnership(c, ok) ==
    /\ cp[c].pc = "ownership"
    /\ LET r == cp[c].rid IN
       /\ checks' = [checks EXCEPT ![r] = SetCheck(checks[r], "ownership", PassFail(ok))]
       /\ IF ok
          THEN /\ cp' = [cp EXCEPT ![c].pc = "health"]
               /\ UNCHANGED vreqs
          ELSE LET req == [cp[c].req EXCEPT !.status = "failed"]
               IN  /\ vreqs' = [vreqs EXCEPT ![r] = req]
                   /\ cp' = [cp EXCEPT ![c] = Finished(r, "ownership_failed")]
    /\ UNCHANGED hookVars
    /\ UNCHANGED calcVars
    /\ UNCHANGED <<now, server, healthChecks, rq, hc>>

\* HealthCheck.save run to its end on the instance srv: the insert, the window
\* query and the save of the server
SavedServer(srv, rows, s, is_up, t) ==
    LET total == Cardinality(RecentChecks(rows, s, t))
        up    == Cardinality(UpChecks(rows, s, t))
    IN  IF total > 0 THEN Aggregated(srv, total, up, is_up, t) ELSE srv

CompleteHealth_StopWhenDown(c, is_healthy) ==
    /\ cp[c].pc = "health"
    /\ Len(healthChecks) < MaxChecks
    /\ LET r    == cp[c].rid
           s    == cp[c].req.server
           rows == Append(healthChecks, NewHealthCheck(s, is_healthy, now))
           srv  == SavedServer(cp[c].srv, rows, s, is_healthy, now)
       IN  /\ healthChecks' = rows
           /\ server' = [server EXCEPT ![s] = srv]
           /\ checks' = [checks EXCEPT ![r] = SetCheck(checks[r], "health", PassFail(is_healthy))]
           /\ IF is_healthy
              THEN /\ cp' = [cp EXCEPT ![c].pc = "capabilities", ![c].srv = srv]
                   /\ UNCHANGED vreqs
              ELSE /\ cp' = [cp EXCEPT ![c] = [Finished(r, "failed_checks")
                                                  EXCEPT !.failed = {"health"}]]
                   /\ vreqs' = [vreqs EXCEPT ![r] = [cp[c].req EXCEPT !.status = "failed"]]
    /\ UNCHANGED hookVars
    /\ UNCHANGED calcVars
    /\ UNCHANGED <<now, rq, hc>>

\* _perform_health_check (views.py 311-336): probe, HealthCheck row, health check row
CompleteHealth(c, is_healthy) ==
    /\ cp[c].pc = "health"
    /\ Len(healthChecks) < MaxChecks
    /\ LET r    == cp[c].rid
           s    == cp[c].req.server
           rows == Append(healthChecks, NewHealthCheck(s, is_healthy, now))
           srv  == SavedServer(cp[c].srv, rows, s, is_healthy, now)
       IN  /\ healthChecks' = rows
           /\ server' = [server EXCEPT ![s] = srv]
           /\ checks' = [checks EXCEPT ![r] = SetCheck(checks[r], "health", PassFail(is_healthy))]
           /\ cp' = [cp EXCEPT ![c].pc = "capabilities", ![c].srv = srv]
    /\ UNCHANGED hookVars
    /\ UNCHANGED calcVars
    /\ UNCHANGED <<now, vreqs, rq, hc>>

\* _verify_capabilities (views.py 338-408) with outcome ok, then the security
\* stub (lines 185-189)
CompleteCapabilities(c, ok) ==
    /\ cp[c].pc = "capabilities"
    /\ LET r == cp[c].rid IN
       checks' = [checks EXCEPT ![r] =
                     SetCheck(SetCheck(checks[r], "capabilities", PassFail(ok)),
                              "security", "passed")]
    /\ cp' = [cp EXCEPT ![c].pc = "finalize"]
    /\ UNCHANGED hookVars
    /\ UNCHANGED calcVars
    /\ UNCHANGED <<now, server, vreqs, healthChecks, rq, hc>>

AllPassed_OwnershipOnly(r) == checks[r]["ownership"] = "passed"

\* all(check.status == 'passed' for check in verification_request.checks.all())
AllPassed(r) == \A t \in DOMAIN checks[r] : checks[r][t] = "passed"

\* failed_checks = verification_request.checks.filter(status='failed')
FailedChecks(r) == {t \in DOMAIN checks[r] : checks[r][t] = "failed"}

\* VerificationRequest.complete_verification(success=True) on the instances
\* the view holds: the request row and self.server
CompletedRequest(req, t) == [req EXCEPT !.status = "completed", !.completed_at = t]
VerifiedServer(srv) == [srv EXCEPT !.verified = TRUE]

\* lines 191-218
CompleteFinalize(c) ==
    /\ cp[c].pc = "finalize"
    /\ LET r == cp[c].rid
           s == cp[c].req.server
       IN  IF AllPassed(r)
           THEN LET req == CompletedRequest(cp[c].req, now)
                    srv == VerifiedServer(cp[c].srv)
                IN  /\ vreqs' = [vreqs EXCEPT ![r] = req]
                    /\ server' = [server EXCEPT ![s] = srv]
                    /\ cp' = [cp EXCEPT ![c] = Finished(r, "verified")]
           ELSE LET req == [cp[c].req EXCEPT !.status = "failed"]
                IN  /\ vreqs' = [vreqs EXCEPT ![r] = req]
                    /\ cp' = [cp EXCEPT ![c] = [Finished(r, "failed_checks")
                                                   EXCEPT !.failed = FailedChecks(r)]]
                    /\ UNCHANGED server
    /\ UNCHANGED hookVars
    /\ UNCHANGED calcVars
    /\ UNCHANGED <<now, checks, healthChecks, rq, hc>>

\* ---------------------------------- health tasks (verification/tasks.py)
IdleHc == [pc |-> "idle", kind |-> "none", sid |-> NoServer, srv |-> NoSrv,
           is_up |-> FALSE, row |-> 0, total |-> 0, up |-> 0]

FreeSlots(h) == {t \in DOMAIN h : h[t].pc = "idle"}

\* task.delay(server_id): the message waits in the queue
Enqueue(h, kind, s) ==
    LET t == CHOOSE x \in FreeSlots(h) : \A y \in FreeSlots(h) : x <= y
    IN  [h EXCEPT ![t] = [IdleHc EXCEPT !.pc = "queued", !.kind = kind, !.sid = s]]

RECURSIVE EnqueueAll(_, _, _)
EnqueueAll(h, kind, S) ==
    IF S = {} THEN h
    ELSE LET s == CHOOSE x \in S : TRUE
         IN  EnqueueAll(Enqueue(h, kind, s), kind, S \ {s})

\* server = Server.objects.get(id=server_id)
TaskLoad(t) ==
    /\ hc[t].pc = "queued"
    /\ hc' = [hc EXCEPT ![t].pc = "probe", ![t].srv = server[hc[t].sid]]
    /\ UNCHANGED hookVars
    /\ UNCHANGED calcVars
    /\ UNCHANGED <<now, server, vreqs, checks, healthChecks, rq, cp>>

\* requests.get(<url>/health, timeout=5)
TaskProbe(t, is_up) ==
    /\ hc[t].pc = "probe"
    /\ hc' = [hc EXCEPT ![t].pc = "insert", ![t].is_up = is_up]
    /\ UNCHANGED hookVars
    /\ UNCHANGED calcVars
    /\ UNCHANGED <<now, server, vreqs, checks, healthChecks, rq, cp>>

TaskInsert_Overwrite(t) ==
    /\ hc[t].pc = "insert"
    /\ Len(healthChecks) < MaxChecks
    /\ LET mine == {i \in DOMAIN healthChecks : healthChecks[i].server = hc[t].sid}
           row  == NewHealthCheck(hc[t].sid, hc[t].is_up, now)
       IN  IF mine = {}
           THEN /\ healthChecks' = Append(healthChecks, row)
                /\ hc' = [hc EXCEPT ![t].pc = "total", ![t].row = Len(healthChecks) + 1]
           ELSE LET i == CHOOSE x \in mine : \A y \in mine : y <= x
                IN  /\ healthChecks' = [healthChecks EXCEPT ![i] = row]
                    /\ hc' = [hc EXCEPT ![t].pc = "total", ![t].row = i]
    /\ UNCHANGED hookVars
    /\ UNCHANGED calcVars
    /\ UNCHANGED <<now, server, vreqs, checks, rq, cp>>

\* HealthCheck.save: super().save(), the INSERT
TaskInsert(t) ==
    /\ hc[t].pc = "insert"
    /\ Len(healthChecks) < MaxChecks
    /\ healthChecks' = Append(healthChecks, NewHealthCheck(hc[t].sid, hc[t].is_up, now))
    /\ hc' = [hc EXCEPT ![t].pc = "total", ![t].row = Len(healthChecks) + 1]
    /\ UNCHANGED hookVars
    /\ UNCHANGED calcVars
    /\ UNCHANGED <<now, server, vreqs, checks, rq, cp>>

DoneHc == [IdleHc EXCEPT !.pc = "done"]

\* what follows HealthCheck.objects.create in the task: initiate_verification
\* goes on to set the status, check_server_health returns
AfterCreate(h) == IF h.kind = "initial" THEN [h EXCEPT !.pc = "final"] ELSE DoneHc

\* HealthCheck.save: total_checks = recent_checks.count()
TaskTotal(t) ==
    /\ hc[t].pc = "total"
    /\ LET total == Cardinality(RecentChecks(healthChecks, hc[t].sid, now))
       IN  hc' = [hc EXCEPT ![t] = IF total > 0
                                     THEN [hc[t] EXCEPT !.total = total, !.pc = "up"]
                                     ELSE AfterCreate(hc[t])]
    /\ UNCHANGED hookVars
    /\ UNCHANGED calcVars
    /\ UNCHANGED <<now, server, vreqs, checks, healthChecks, rq, cp>>

\* HealthCheck.save: up_checks = recent_checks.filter(is_up=True).count()
TaskUp(t) ==
    /\ hc[t].pc = "up"
    /\ hc' = [hc EXCEPT ![t].up = Cardinality(UpChecks(healthChecks, hc[t].sid, now)),
                        ![t].pc = "save"]
    /\ UNCHANGED hookVars
    /\ UNCHANGED calcVars
    /\ UNCHANGED <<now, server, vreqs, checks, healthChecks, rq, cp>>

\* HealthCheck.save: the changes to self.server and self.server.save()
TaskSave(t) ==
    /\ hc[t].pc = "save"
    /\ LET srv == Aggregated(hc[t].srv, hc[t].total, hc[t].up, hc[t].is_up,
                             healthChecks[hc[t].row].created_at)
       IN  /\ server' = [server EXCEPT ![hc[t].sid] = srv]
           /\ hc' = [hc EXCEPT ![t] = AfterCreate([hc[t] EXCEPT !.srv = srv])]
    /\ UNCHANGED hookVars
    /\ UNCHANGED calcVars
    /\ UNCHANGED <<now, vreqs, checks, healthChecks, rq, cp>>

\* initiate_verification, tasks.py 37-45
InitialStatus(srv, is_up) ==
    [srv EXCEPT !.is_active = is_up,
                !.status_message = IF is_up THEN "Server is active"
                                   ELSE "Server is not responding"]

TaskFinal(t) ==
    /\ hc[t].pc = "final"
    /\ server' = [server EXCEPT ![hc[t].sid] = InitialStatus(hc[t].srv, hc[t].is_up)]
    /\ hc' = [hc EXCEPT ![t] = DoneHc]
    /\ UNCHANGED hookVars
    /\ UNCHANGED calcVars
    /\ UNCHANGED <<now, vreqs, checks, healthChecks, rq, cp>>

ServersToCheck_AnyStatus(t) ==
    {s \in DOMAIN server : server[s].last_checked < t - CheckInterval}

ServersToCheck_Inclusive(t) ==
    {s \in DOMAIN server :
        server[s].is_active /\ server[s].last_checked <= t - CheckInterval}

\* run_scheduled_health_checks, tasks.py 94-109
ServersToCheck(t) ==
    {s \in DOMAIN server :
        server[s].is_active /\ server[s].last_checked < t - CheckInterval}

Sweep ==
    /\ ServersToCheck(now) # {}
    /\ Cardinality(ServersToCheck(now)) <= Cardinality(FreeSlots(hc))
    /\ hc' = EnqueueAll(hc, "scheduled", ServersToCheck(now))
    /\ UNCHANGED hookVars
    /\ UNCHANGED calcVars
    /\ UNCHANGED <<now, server, vreqs, checks, healthChecks, rq, cp>>

\* ServerViewSet.activate, servers/views.py 174-195
Activate(s) ==
    /\ ~server[s].is_active
    /\ FreeSlots(hc) # {}
    /\ server' = [server EXCEPT ![s].is_active = TRUE,
                                ![s].status_message = "Activated by owner"]
    /\ hc' = Enqueue(hc, "scheduled", s)
    /\ UNCHANGED hookVars
    /\ UNCHANGED calcVars
    /\ UNCHANGED <<now, vreqs, checks, healthChecks, rq, cp>>

\* ServerViewSet.deactivate, servers/views.py 197-214
Deactivate(s) ==
    /\ server[s].is_active
    /\ server' = [server EXCEPT ![s].is_active = FALSE,
                                ![s].status_message = "Deactivated by owner"]
    /\ UNCHANGED hookVars
    /\ UNCHANGED calcVars
    /\ UNCHANGED <<now, vreqs, checks, healthChecks, rq, cp, hc>>

\* ------------------------------------------- webhooks (webhooks/tasks.py)
\* Webhook.EVENT_CHOICES (two of the seven)
Events == {"server.verified", "server.created"}
\* the answers of a subscriber: a status code, or a requests.RequestException
ConnError == 0
Answers == {200, 302, 404, 503, ConnError}
NoCode == 0 - 1

\* @shared_task(bind=True, max_retries=3)
max_retries == 3
\* the attempt_count below which process_webhook_delivery retries
MaxAttempts == 3
\* the base of the countdown, in seconds
BackoffBase == 60

\* the '' that regenerate_secret assigns; secrets.token_hex(32) values are
\* numbered from 1 in the order they are generated
EmptySecret == 0
MaxSecrets == 3

WebhookSave_NoGenerate(row, fresh) == row

\* Webhook.save, models.py 44-48
WebhookSave(row, fresh) ==
    IF row.secret = EmptySecret THEN [row EXCEPT !.secret = fresh] ELSE row

NewWebhook(evs) == WebhookSave([active |-> TRUE, events |-> evs, secret |-> EmptySecret], 1)

NewDelivery(w, event) ==
    [webhook |-> w, event |-> event, status |-> "pending", attempt_count |-> 0,
     response_code |-> NoCode]

NoDelivery == NewDelivery("none", "none")

NewWire == [posts |-> 0, answers |-> {}, last |-> NoCode, delays |-> <<>>,
            manual |-> 0, skipped |-> 0, keys |-> {}]

IdleEx == [pc |-> "idle", did |-> 0, dlv |-> NoDelivery, active |-> FALSE,
           secret |-> EmptySecret, retries |-> 0, countdown |-> 0]
DoneEx == [IdleEx EXCEPT !.pc = "done"]

FreeEx == {e \in DOMAIN ex : ex[e].pc = "idle"}
LowestFree == CHOOSE e \in FreeEx : \A o \in FreeEx : e <= o

\* process_webhook_delivery.delay(str(delivery.id))
QueuedEx(d) == [IdleEx EXCEPT !.pc = "queued", !.did = d]

Subscribed_IgnoreActive(event) ==
    {w \in DOMAIN webhooks : event \in webhooks[w].events}

\* Webhook.objects.filter(active=True, events__contains=[event])
Subscribed(event) ==
    {w \in DOMAIN webhooks : webhooks[w].active /\ event \in webhooks[w].events}

\* for webhook in webhooks: WebhookDelivery.objects.create(..., status='pending');
\* process_webhook_delivery.delay(str(delivery.id))
RECURSIVE Fanout(_, _, _)
Fanout(st, event, S) ==
    IF S = {} THEN st
    ELSE LET w    == CHOOSE x \in S : TRUE
             d    == Len(st.deliveries) + 1
             free == {e \in DOMAIN st.ex : st.ex[e].pc = "idle"}
             slot == CHOOSE e \in free : \A o \in free : e <= o
         IN  Fanout([deliveries |-> Append(st.deliveries, NewDelivery(w, event)),
                     wire |-> Append(st.wire, NewWire),
                     ex |-> [st.ex EXCEPT ![slot] = QueuedEx(d)]],
                    event, S \ {w})

\* trigger_webhooks_for_event, tasks.py 115-138; MaxDeliveries bounds the
\* deliveries per webhook
Trigger(event) ==
    /\ Subscribed(event) # {}
    /\ Len(deliveries) + Cardinality(Subscribed(event))
          <= MaxDeliveries * Cardinality(DOMAIN webhooks)
    /\ Cardinality(Subscribed(event)) <= Cardinality(FreeEx)
    /\ LET st == Fanout([deliveries |-> deliveries, wire |-> wire, ex |-> ex],
                        event, Subscribed(event))
       IN  /\ deliveries' = st.deliveries
           /\ wire' = st.wire
           /\ ex' = st.ex
    /\ UNCHANGED webhooks
    /\ UNCHANGED coreVars
    /\ UNCHANGED calcVars

\* WebhookUpdateSerializer: the owner sets the active flag
SetActive(w, b) ==
    /\ webhooks[w].active # b
    /\ webhooks' = [webhooks EXCEPT ![w].active = b]
    /\ UNCHANGED <<deliveries, ex, wire>>
    /\ UNCHANGED coreVars
    /\ UNCHANGED calcVars

\* the largest secret generated so far
LastSecret == CHOOSE k \in 0..MaxSecrets :
                 /\ \A w \in DOMAIN webhooks : webhooks[w].secret <= k
                 /\ \E w \in DOMAIN webhooks : webhooks[w].secret = k

\* WebhookViewSet.regenerate_secret, views.py 84-98: webhook.secret = '';
\* webhook.save()
RegenerateSecret(w) ==
    /\ LastSecret < MaxSecrets
    /\ webhooks' = [webhooks EXCEPT
                       ![w] = WebhookSave([@ EXCEPT !.secret = EmptySecret], LastSecret + 1)]
    /\ UNCHANGED <<deliveries, ex, wire>>
    /\ UNCHANGED coreVars
    /\ UNCHANGED calcVars

\* tasks.py 29-33: delivery = WebhookDelivery.objects.get(id); webhook = delivery.webhook
DeliverLoad(e) ==
    /\ ex[e].pc = "queued"
    /\ LET d == ex[e].did IN
       ex' = [ex EXCEPT ![e].pc = "loaded", ![e].dlv = deliveries[d],
                        ![e].active = webhooks[deliveries[d].webhook].active,
                        ![e].secret = webhooks[deliveries[d].webhook].secret]
    /\ UNCHANGED <<webhooks, deliveries, wire>>
    /\ UNCHANGED coreVars
    /\ UNCHANGED calcVars

DeliverSkip_Counting(e) ==
    /\ ex[e].pc = "loaded"
    /\ ~ex[e].active
    /\ LET d == ex[e].did IN
       /\ deliveries' = [deliveries EXCEPT ![d] =
                            [ex[e].dlv EXCEPT !.status = "failed", !.attempt_count = @ + 1]]
       /\ wire' = [wire EXCEPT ![d].skipped = @ + 1]
    /\ ex' = [ex EXCEPT ![e] = DoneEx]
    /\ UNCHANGED webhooks
    /\ UNCHANGED coreVars
    /\ UNCHANGED calcVars

\* tasks.py 32-38: the webhook is inactive
DeliverSkip(e) ==
    /\ ex[e].pc = "loaded"
    /\ ~ex[e].active
    /\ LET d == ex[e].did IN
       /\ deliveries' = [deliveries EXCEPT ![d] = [ex[e].dlv EXCEPT !.status = "failed"]]
       /\ wire' = [wire EXCEPT ![d].skipped = @ + 1]
    /\ ex' = [ex EXCEPT ![e] = DoneEx]
    /\ UNCHANGED webhooks
    /\ UNCHANGED coreVars
    /\ UNCHANGED calcVars

\* tasks.py 40-42: delivery.attempt_count += 1; delivery.save()
Counted(dlv) == [dlv EXCEPT !.attempt_count = @ + 1]

DeliverCount(e) ==
    /\ ex[e].pc = "loaded"
    /\ ex[e].active
    /\ LET dlv == Counted(ex[e].dlv) IN
       /\ deliveries' = [deliveries EXCEPT ![ex[e].did] = dlv]
       /\ ex' = [ex EXCEPT ![e].pc = "send", ![e].dlv = dlv]
    /\ UNCHANGED <<webhooks, wire>>
    /\ UNCHANGED coreVars
    /\ UNCHANGED calcVars

\* tasks.py 44-63: the signature under webhook.secret, and requests.post is sent
DeliverSend(e) ==
    /\ ex[e].pc = "send"
    /\ wire' = [wire EXCEPT ![ex[e].did].posts = @ + 1,
                            ![ex[e].did].keys = @ \cup {ex[e].secret}]
    /\ ex' = [ex EXCEPT ![e].pc = "wait"]
    /\ UNCHANGED <<webhooks, deliveries>>
    /\ UNCHANGED coreVars
    /\ UNCHANGED calcVars

Answered_KeepOnError(dlv, a) ==
    IF a = ConnError THEN dlv
    ELSE [dlv EXCEPT !.response_code = a,
                     !.status = IF 200 <= a /\ a < 300 THEN "success" ELSE "failed"]

Answered_Below400(dlv, a) ==
    IF a = ConnError THEN [dlv EXCEPT !.status = "failed"]
    ELSE [dlv EXCEPT !.response_code = a,
                     !.status = IF 200 <= a /\ a < 400 THEN "success" ELSE "failed"]

\* tasks.py 65-75 and 81-83: the fields set from the answer
Answered(dlv, a) ==
    IF a = ConnError THEN [dlv EXCEPT !.status = "failed"]
    ELSE [dlv EXCEPT !.response_code = a,
                     !.status = IF 200 <= a /\ a < 300 THEN "success" ELSE "failed"]

WantsRetry_OffByOne(dlv, a) ==
    IF a = ConnError THEN dlv.attempt_count <= MaxAttempts
    ELSE ~(200 <= a /\ a < 300) /\ a >= 500 /\ dlv.attempt_count <= MaxAttempts

WantsRetry_AnyFailure(dlv, a) ==
    IF a = ConnError THEN dlv.attempt_count < MaxAttempts
    ELSE ~(200 <= a /\ a < 300) /\ dlv.attempt_count < MaxAttempts

\* tasks.py 78 and 87: the conditions under which self.retry is called
WantsRetry(dlv, a) ==
    IF a = ConnError THEN dlv.attempt_count < MaxAttempts
    ELSE ~(200 <= a /\ a < 300) /\ a >= 500 /\ dlv.attempt_count < MaxAttempts

Countdown_FromZero(dlv) == BackoffBase * 2 ^ dlv.attempt_count

\* countdown=60 * (2 ** (delivery.attempt_count - 1))
Countdown(dlv) == BackoffBase * 2 ^ (dlv.attempt_count - 1)

\* Task.retry sends the task again unless request.retries + 1 > max_retries
RetryAllowed(retries) == retries + 1 <= max_retries

\* tasks.py 65-92: the answer, the retry and the save in the finally clause
DeliverAnswer(e, a) ==
    /\ ex[e].pc = "wait"
    /\ LET d   == ex[e].did
           dlv == Answered(ex[e].dlv, a)
           again == WantsRetry(dlv, a) /\ RetryAllowed(ex[e].retries)
       IN  /\ deliveries' = [deliveries EXCEPT ![d] = dlv]
           /\ wire' = [wire EXCEPT ![d].answers = @ \cup {a},
                                   ![d].last = a,
                                   ![d].delays = IF again THEN Append(@, Countdown(dlv))
                                                 ELSE @]
           /\ ex' = [ex EXCEPT ![e] =
                        IF again
                        THEN [QueuedEx(d) EXCEPT !.retries = ex[e].retries + 1,
                                                 !.countdown = Countdown(dlv)]
                        ELSE DoneEx]
    /\ UNCHANGED webhooks
    /\ UNCHANGED coreVars
    /\ UNCHANGED calcVars

\* Webhook.EVENT_CHOICES, models.py 13-21
EVENT_CHOICES ==
    {"server.created", "server.updated", "server.deleted", "server.verified",
     "verification.requested", "verification.completed", "server.status_changed"}

\* WebhookTestView.post, views.py 192-236: rejected for an inactive webhook;
\* otherwise WebhookDelivery.objects.create(webhook, event="webhook.test",
\* status="pending") and process_webhook_delivery.delay
TestWebhook(w) ==
    /\ webhooks[w].active
    /\ Len(deliveries) < MaxDeliveries * Cardinality(DOMAIN webhooks)
    /\ FreeEx # {}
    /\ deliveries' = Append(deliveries, NewDelivery(w, "webhook.test"))
    /\ wire' = Append(wire, NewWire)
    /\ ex' = [ex EXCEPT ![LowestFree] = QueuedEx(Len(deliveries) + 1)]
    /\ UNCHANGED webhooks
    /\ UNCHANGED coreVars
    /\ UNCHANGED calcVars

\* WebhookDeliveryRetryView.post, views.py 144-174: the accepted case
RetryAccepted(dlv) == dlv.status = "failed" /\ webhooks[dlv.webhook].active

ManualRetry(d) ==
    /\ d \in DOMAIN deliveries
    /\ RetryAccepted(deliveries[d])
    /\ FreeEx # {}
    /\ ex' = [ex EXCEPT ![LowestFree] = [IdleEx EXCEPT !.pc = "retry", !.did = d]]
    /\ wire' = [wire EXCEPT ![d].manual = @ + 1]
    /\ UNCHANGED <<webhooks, deliveries>>
    /\ UNCHANGED coreVars
    /\ UNCHANGED calcVars

\* retry_webhook_delivery, tasks.py 100-112
RetryTask(e) ==
    /\ ex[e].pc = "retry"
    /\ ex' = [ex EXCEPT ![e] = IF deliveries[ex[e].did].status = "failed"
                               THEN QueuedEx(ex[e].did) ELSE DoneEx]
    /\ UNCHANGED <<webhooks, deliveries, wire>>
    /\ UNCHANGED coreVars
    /\ UNCHANGED calcVars

Tick ==
    /\ now < MaxTime
    /\ now' = now + 1
    /\ UNCHANGED hookVars
    /\ UNCHANGED calcVars
    /\ UNCHANGED <<server, vreqs, checks, healthChecks, rq, cp, hc>>

\* --------------------------------------------------------- specification
\* one webhook of one owner, subscribed to server.verified
InitHooks ==
    /\ webhooks = [w \in {"w1"} |-> NewWebhook({"server.verified"})]
    /\ deliveries = <<>>
    /\ ex = [e \in 1..MaxExecs |-> IdleEx]
    /\ wire = <<>>

\* no function call under examination
NoCalc == [fn |-> "none"]

InitTables(S) ==
    /\ InitHooks
    /\ calc = NoCalc
    /\ now = 0
    /\ server = [s \in S |-> NewServer(0)]
    /\ vreqs = <<>>
    /\ checks = <<>>
    /\ healthChecks = <<>>
    /\ rq = [q \in 1..MaxRequests |-> IdleRq]
    /\ cp = [c \in 1..MaxCompletes |-> IdleCp]
    /\ hc = [t \in 1..MaxTasks |-> IdleHc]

Init == InitTables({"s1"})

Next ==
    \/ \E q \in DOMAIN rq, s \in DOMAIN server : RequestGuard(q, s)
    \/ \E q \in DOMAIN rq : RequestInsert(q)
    \/ \E q \in DOMAIN rq : RequestToken(q)
    \/ \E q \in DOMAIN rq : RequestCheck(q)
    \/ \E c \in DOMAIN cp, r \in DOMAIN vreqs, m \in Methods : CompleteBegin(c, r, m)
    \/ \E c \in DOMAIN cp, ok \in BOOLEAN : CompleteOwnership(c, ok)
    \/ \E c \in DOMAIN cp, up \in BOOLEAN : CompleteHealth(c, up)
    \/ \E c \in DOMAIN cp, ok \in BOOLEAN : CompleteCapabilities(c, ok)
    \/ \E c \in DOMAIN cp : CompleteFinalize(c)
    \/ Tick

Spec == Init /\ [][Next]_vars

\* Concurrent Requests with a single Complete.
InitOne ==
    /\ InitHooks
    /\ calc = NoCalc
    /\ now = 0
    /\ server = [s \in {"s1"} |-> NewServer(0)]
    /\ vreqs = <<>>
    /\ checks = <<>>
    /\ healthChecks = <<>>
    /\ rq = [q \in 1..MaxRequests |-> IdleRq]
    /\ cp = [c \in 1..1 |-> IdleCp]
    /\ hc = [t \in 1..MaxTasks |-> IdleHc]

SpecOne == InitOne /\ [][Next]_vars

\* The server core: one issued verification request, one Complete, the
\* scheduler and the health tasks it enqueues.
IssuedRequest(s, t) ==
    [NewRequest(s) EXCEPT !.token = 1, !.expiry = t + TokenExpiry]

SeededChecks == [t \in CheckTypes |-> "pending"]

InitSrv ==
    /\ InitHooks
    /\ calc = NoCalc
    /\ now = 0
    /\ server = [s \in {"s1"} |-> NewServer(0)]
    /\ vreqs = <<IssuedRequest("s1", 0)>>
    /\ checks = <<SeededChecks>>
    /\ healthChecks = <<>>
    /\ rq = <<>>
    /\ cp = [c \in 1..1 |-> IdleCp]
    /\ hc = [t \in 1..MaxTasks |-> IdleHc]

NextSrv ==
    \/ \E c \in DOMAIN cp, r \in DOMAIN vreqs, m \in Methods : CompleteBegin(c, r, m)
    \/ \E c \in DOMAIN cp, ok \in BOOLEAN : CompleteOwnership(c, ok)
    \/ \E c \in DOMAIN cp, up \in BOOLEAN : CompleteHealth(c, up)
    \/ \E c \in DOMAIN cp, ok \in BOOLEAN : CompleteCapabilities(c, ok)
    \/ \E c \in DOMAIN cp : CompleteFinalize(c)
    \/ \E t \in DOMAIN hc : TaskLoad(t)
    \/ \E t \in DOMAIN hc, up \in BOOLEAN : TaskProbe(t, up)
    \/ \E t \in DOMAIN hc : TaskInsert(t)
    \/ \E t \in DOMAIN hc : TaskTotal(t)
    \/ \E t \in DOMAIN hc : TaskUp(t)
    \/ \E t \in DOMAIN hc : TaskSave(t)
    \/ Sweep
    \/ Tick

SpecSrv == InitSrv /\ [][NextSrv]_vars

\* Concurrent Completes of one issued request, with progress: the request
\* handler of a Complete runs on its own thread, and each outbound call of a
\* step returns or times out, so a Complete that can take its next step
\* eventually takes it.
InitTwo ==
    /\ InitHooks
    /\ calc = NoCalc
    /\ now = 0
    /\ server = [s \in {"s1"} |-> NewServer(0)]
    /\ vreqs = <<IssuedRequest("s1", 0)>>
    /\ checks = <<SeededChecks>>
    /\ healthChecks = <<>>
    /\ rq = <<>>
    /\ cp = [c \in 1..MaxCompletes |-> IdleCp]
    /\ hc = [t \in 1..MaxTasks |-> IdleHc]

CompleteStep(c) ==
    \/ \E ok \in BOOLEAN : CompleteOwnership(c, ok)
    \/ \E up \in BOOLEAN : CompleteHealth(c, up)
    \/ \E ok \in BOOLEAN : CompleteCapabilities(c, ok)
    \/ CompleteFinalize(c)

NextTwo ==
    \/ \E c \in DOMAIN cp, r \in DOMAIN vreqs, m \in Methods : CompleteBegin(c, r, m)
    \/ \E c \in DOMAIN cp : CompleteStep(c)
    \/ Tick

LiveTwo ==
    InitTwo /\ [][NextTwo]_vars /\ \A c \in 1..MaxCompletes : WF_vars(CompleteStep(c))

\* Health checks run one after another, each check_server_health task from its
\* load of the server to the save in HealthCheck.save, for two servers.
HealthCheckRun(s, is_up) ==
    /\ Len(healthChecks) < MaxChecks
    /\ LET rows == Append(healthChecks, NewHealthCheck(s, is_up, now))
       IN  /\ healthChecks' = rows
           /\ server' = [server EXCEPT ![s] = SavedServer(server[s], rows, s, is_up, now)]
    /\ UNCHANGED hookVars
    /\ UNCHANGED calcVars
    /\ UNCHANGED <<now, vreqs, checks, rq, cp, hc>>

InitAgg == InitTables({"s1", "s2"})

NextAgg ==
    \/ \E s \in DOMAIN server, is_up \in BOOLEAN : HealthCheckRun(s, is_up)
    \/ Tick

SpecAgg == InitAgg /\ [][NextAgg]_vars

\* The webhook dispatcher.
InitHook == InitTables({"s1"})

NextHook ==
    \/ \E event \in Events : Trigger(event)
    \/ \E w \in DOMAIN webhooks, b \in BOOLEAN : SetActive(w, b)
    \/ \E e \in DOMAIN ex : DeliverLoad(e)
    \/ \E e \in DOMAIN ex : DeliverSkip(e)
    \/ \E e \in DOMAIN ex : DeliverCount(e)
    \/ \E e \in DOMAIN ex : DeliverSend(e)
    \/ \E e \in DOMAIN ex, a \in Answers : DeliverAnswer(e, a)
    \/ \E d \in DOMAIN deliveries : ManualRetry(d)
    \/ \E e \in DOMAIN ex : RetryTask(e)

SpecHook == InitHook /\ [][NextHook]_vars

\* The same with progress: a worker runs every execution that is enqueued,
\* and requests.post returns or raises within its timeout of 10 s, so an
\* execution that can take its next step eventually takes it.
DeliverStep(e) ==
    \/ DeliverLoad(e)
    \/ DeliverSkip(e)
    \/ DeliverCount(e)
    \/ DeliverSend(e)
    \/ \E a \in Answers : DeliverAnswer(e, a)

LiveHook == InitHook /\ [][NextHook]_vars /\ \A e \in 1..MaxExecs : WF_vars(DeliverStep(e))

\* The two ways a delivery is created, an event and the owner's test of a
\* webhook, with the owner's switch of the active flag and the runs of deliver.
InitTest == InitTables({"s1"})

NextTest ==
    \/ \E event \in Events : Trigger(event)
    \/ \E w \in DOMAIN webhooks : TestWebhook(w)
    \/ \E w \in DOMAIN webhooks, b \in BOOLEAN : SetActive(w, b)
    \/ \E e \in DOMAIN ex : DeliverLoad(e)
    \/ \E e \in DOMAIN ex : DeliverSkip(e)
    \/ \E e \in DOMAIN ex : DeliverCount(e)
    \/ \E e \in DOMAIN ex : DeliverSend(e)
    \/ \E e \in DOMAIN ex, a \in Answers : DeliverAnswer(e, a)

SpecTest == InitTest /\ [][NextTest]_vars

\* The deliveries of one webhook whose owner regenerates the secret.
InitSecret == InitTables({"s1"})

NextSecret ==
    \/ \E event \in Events : Trigger(event)
    \/ \E w \in DOMAIN webhooks : RegenerateSecret(w)
    \/ \E e \in DOMAIN ex : DeliverLoad(e)
    \/ \E e \in DOMAIN ex : DeliverCount(e)
    \/ \E e \in DOMAIN ex : DeliverSend(e)
    \/ \E e \in DOMAIN ex, a \in Answers : DeliverAnswer(e, a)
    \/ \E d \in DOMAIN deliveries : ManualRetry(d)
    \/ \E e \in DOMAIN ex : RetryTask(e)

SpecSecret == InitSecret /\ [][NextSecret]_vars

\* ------------------------- _verify_capabilities (verification/views.py 338-408)
\* The entries of a JSON array: an object with a string name, an object whose
\* name is itself an array (not hashable), an object without name, a scalar.
CapNames == {"search", "translate"}
Entries ==
    [kind : {"named"}, name : CapNames]
    \cup [kind : {"listname", "unnamed", "scalar"}, name : {""}]

MaxItems == 2
ItemLists == UNION {[1..n -> Entries] : n \in 0..MaxItems}

\* The response bodies: not JSON; a top-level array; an object whose key
\* capabilities holds an array; an object whose key capabilities holds null;
\* an object without that key; a scalar.
Bodies ==
    [kind : {"list", "wrapper"}, items : ItemLists]
    \cup [kind : {"notjson", "nullwrapper", "object", "scalar"}, items : {<<>>}]

\* the answers to GET <url>/capabilities: a status code or a RequestException
CapAnswers == {200, 404, ConnError}

\* for cap in <items>: if isinstance(cap, dict) and 'name' in cap:
\* server_capabilities.add(cap['name']); set.add raises TypeError on a list
RECURSIVE Collected(_, _)
Collected(items, acc) ==
    IF items = <<>> THEN [raised |-> FALSE, names |-> acc]
    ELSE IF Head(items).kind = "listname" THEN [raised |-> TRUE, names |-> acc]
    ELSE IF Head(items).kind = "named"
         THEN Collected(Tail(items), acc \cup {Head(items).name})
    ELSE Collected(Tail(items), acc)

\* lines 358-369: the names extracted from the parsed body; iterating over
\* null raises TypeError
ServerCapabilities(body) ==
    IF body.kind \in {"list", "wrapper"} THEN Collected(body.items, {})
    ELSE IF body.kind = "nullwrapper" THEN [raised |-> TRUE, names |-> {}]
    ELSE [raised |-> FALSE, names |-> {}]

CapResult(st, diag, missing) == [status |-> st, diag |-> diag, missing |-> missing]

\* the status and details _verify_capabilities stores in the capabilities check
VerifyCapabilities(answer, body, registered) ==
    IF answer = ConnError THEN CapResult("failed", "error", {})
    ELSE IF answer # 200 THEN CapResult("failed", "status_code", {})
    ELSE IF body.kind = "notjson" THEN CapResult("failed", "response", {})
    ELSE LET got == ServerCapabilities(body)
             missing == registered \ got.names
         IN  IF got.raised THEN CapResult("failed", "error", {})
             ELSE IF missing # {} THEN CapResult("failed", "missing_capabilities", missing)
             ELSE CapResult("passed", "ok", {})

InitCap ==
    /\ InitTables({"s1"})

CapCall(answer, body, registered) ==
    /\ calc = NoCalc
    /\ calc' = [fn |-> "_verify_capabilities", answer |-> answer, body |-> body,
                registered |-> registered,
                result |-> VerifyCapabilities(answer, body, registered)]
    /\ UNCHANGED coreVars
    /\ UNCHANGED hookVars

NextCap ==
    \E answer \in CapAnswers, body \in Bodies, registered \in SUBSET CapNames :
        CapCall(answer, body, registered)

SpecCap == InitCap /\ [][NextCap]_vars

\* ------------------------------------ sign_payload (webhooks/tasks.py 14-21)
\* A payload is a dict: its items in the order the dict holds them.  Keys are
\* numbered in their lexicographic order.
MaxKeys == 3
PayloadKeys == 1..MaxKeys
PayloadValues == {"x", "y"}
Secrets == {"k1", "k2"}

DistinctKeys(items) ==
    \A i, j \in DOMAIN items : i # j => items[i][1] # items[j][1]

Payloads ==
    {items \in UNION {[1..n -> PayloadKeys \X PayloadValues] : n \in 0..MaxKeys} :
        DistinctKeys(items)}

\* json.dumps(payload, separators=(',', ':')): the items in the dict's order,
\* without whitespace; no sort_keys
Dumps(items) == [compact |-> TRUE, items |-> items]

\* hmac.new(key, message, hashlib.sha256).hexdigest(): a function of key and
\* message that is taken to be free of collisions
HmacSha256(key, message) == <<key, message>>

\* requests.post(..., json=delivery.payload), tasks.py 58-63: the body is
\* json.dumps(payload) with the default separators ', ' and ': ', which
\* yields the compact text only when there is no item to separate ('{}')
JsonBody(items) == [compact |-> items = <<>>, items |-> items]

sign_payload(payload, secret) == HmacSha256(secret, Dumps(payload))

InitSign ==
    /\ InitTables({"s1"})

SignCall(payload, secret) ==
    /\ calc = NoCalc
    /\ calc' = [fn |-> "sign_payload", payload |-> payload, secret |-> secret,
                result |-> sign_payload(payload, secret)]
    /\ UNCHANGED coreVars
    /\ UNCHANGED hookVars

NextSign == \E payload \in Payloads, secret \in Secrets : SignCall(payload, secret)

SpecSign == InitSign /\ [][NextSign]_vars

\* ---------------------------- registration (servers/views.py 132-139) and the
\* probes of a registered server
ServerIds == {"s1"}

\* ServerViewSet.perform_create: serializer.save() inserts the Server row with
\* the field defaults, then initiate_verification.delay(str(server.id))
Register(s) ==
    /\ s \notin DOMAIN server
    /\ FreeSlots(hc) # {}
    /\ server' = [x \in DOMAIN server \cup {s} |->
                     IF x = s THEN NewServer(now) ELSE server[x]]
    /\ hc' = Enqueue(hc, "initial", s)
    /\ UNCHANGED hookVars
    /\ UNCHANGED calcVars
    /\ UNCHANGED <<now, vreqs, checks, healthChecks, rq, cp>>

InitReg == InitTables({})

NextReg ==
    \/ \E s \in ServerIds : Register(s)
    \/ \E t \in DOMAIN hc : TaskLoad(t)
    \/ \E t \in DOMAIN hc, up \in BOOLEAN : TaskProbe(t, up)
    \/ \E t \in DOMAIN hc : TaskInsert(t)
    \/ \E t \in DOMAIN hc : TaskTotal(t)
    \/ \E t \in DOMAIN hc : TaskUp(t)
    \/ \E t \in DOMAIN hc : TaskSave(t)
    \/ \E t \in DOMAIN hc : TaskFinal(t)
    \/ Sweep
    \/ \E s \in DOMAIN server : Activate(s)
    \/ \E s \in DOMAIN server : Deactivate(s)
    \/ Tick

SpecReg == InitReg /\ [][NextReg]_vars

\* Every writer of HealthCheck rows together: the Complete of an issued
\* request for s1, the registration of s2 with its initial probe, the
\* scheduler and its probes.
NextRows ==
    \/ \E c \in DOMAIN cp, r \in DOMAIN vreqs, m \in Methods : CompleteBegin(c, r, m)
    \/ \E c \in DOMAIN cp, ok \in BOOLEAN : CompleteOwnership(c, ok)
    \/ \E c \in DOMAIN cp, up \in BOOLEAN : CompleteHealth(c, up)
    \/ \E c \in DOMAIN cp, ok \in BOOLEAN : CompleteCapabilities(c, ok)
    \/ \E c \in DOMAIN cp : CompleteFinalize(c)
    \/ \E s \in {"s2"} : Register(s)
    \/ \E t \in DOMAIN hc : TaskLoad(t)
    \/ \E t \in DOMAIN hc, up \in BOOLEAN : TaskProbe(t, up)
    \/ \E t \in DOMAIN hc : TaskInsert(t)
    \/ \E t \in DOMAIN hc : TaskTotal(t)
    \/ \E t \in DOMAIN hc : TaskUp(t)
    \/ \E t \in DOMAIN hc : TaskSave(t)
    \/ \E t \in DOMAIN hc : TaskFinal(t)
    \/ Sweep
    \/ Tick

SpecRows == InitSrv /\ [][NextRows]_vars

\* Three webhooks: w1 subscribed to server.verified, w2 to both events, w3 to
\* server.created.
InitTrig ==
    /\ webhooks = [w \in {"w1", "w2", "w3"} |->
                      NewWebhook(IF w = "w1" THEN {"server.verified"}
                                 ELSE IF w = "w3" THEN {"server.created"}
                                 ELSE Events)]
    /\ deliveries = <<>>
    /\ ex = [e \in 1..MaxExecs |-> IdleEx]
    /\ wire = <<>>
    /\ calc = NoCalc
    /\ now = 0
    /\ server = [s \in {"s1"} |-> NewServer(0)]
    /\ vreqs = <<>>
    /\ checks = <<>>
    /\ healthChecks = <<>>
    /\ rq = [q \in 1..MaxRequests |-> IdleRq]
    /\ cp = [c \in 1..MaxCompletes |-> IdleCp]
    /\ hc = [t \in 1..MaxTasks |-> IdleHc]

NextTrig ==
    \/ \E event \in Events : Trigger(event)
    \/ \E w \in DOMAIN webhooks, b \in BOOLEAN : SetActive(w, b)
    \/ \E e \in DOMAIN ex : DeliverLoad(e)
    \/ \E e \in DOMAIN ex : DeliverSkip(e)
    \/ \E e \in DOMAIN ex : DeliverCount(e)
    \/ \E e \in DOMAIN ex : DeliverSend(e)

SpecTrig == InitTrig /\ [][NextTrig]_vars

\* ------------------------------ _verify_dns (verification/views.py 228-252)
\* Character strings are sequences of characters; Quote is the character "
\* and Backslash the character \.
Quote == "quote"
Backslash == "backslash"
MaxData == 2
MaxRecords == 2

Strings(C, n) == UNION {[1..k -> C] : k \in 0..n}

\* secrets.token_urlsafe yields letters, digits, - and _, at least one
Tokens == Strings({"a"}, MaxData) \ {<<>>}
\* the character string of a TXT record
TxtData == Strings({"a", Quote}, MaxData)

\* record.to_text(): the string in quotes, each " inside it written as \"
RECURSIVE Escaped(_)
Escaped(str) ==
    IF str = <<>> THEN <<>>
    ELSE (IF Head(str) = Quote THEN <<Backslash, Quote>> ELSE <<Head(str)>>)
         \o Escaped(Tail(str))

ToText(data) == <<Quote>> \o Escaped(data) \o <<Quote>>

\* str.strip('"'): every leading and every trailing " is removed
RECURSIVE LStrip(_)
LStrip(str) ==
    IF str # <<>> /\ Head(str) = Quote THEN LStrip(Tail(str)) ELSE str

RECURSIVE RStrip(_)
RStrip(str) ==
    IF str # <<>> /\ str[Len(str)] = Quote
    THEN RStrip(SubSeq(str, 1, Len(str) - 1)) ELSE str

Strip(str) == RStrip(LStrip(str))

\* Server.url is a URLField: a host and, possibly, a port (0: none)
NoPort == 0
Urls == [host : {"svc.example"}, port : {NoPort, 8443}]

\* common/utils.py 101-106: urlparse(url).netloc is the host followed by
\* the port when the URL has one
extract_domain_from_url(url) == [host |-> url.host, port |-> url.port]

\* f'_mcp-verification.{domain}'
RecordName(domain) == [label |-> "_mcp-verification", domain |-> domain]

\* what dns.resolver.resolve(name, 'TXT') gives for a name: an exception
\* (NXDOMAIN, NoAnswer, timeout) or a non-empty set of TXT records
ResolutionError == [error |-> TRUE, records |-> {}]
Rrsets == {rs \in SUBSET TxtData : rs # {} /\ Cardinality(rs) <= MaxRecords}
DnsAnswers == {ResolutionError} \cup {[error |-> FALSE, records |-> rs] : rs \in Rrsets}

\* the names that matter for a URL: the one of its host and the one queried
NamesOf(url) ==
    {RecordName([host |-> url.host, port |-> NoPort]),
     RecordName(extract_domain_from_url(url))}

DnsResult(ok, details) == [ok |-> ok, details |-> details, raised |-> FALSE]

\* views.py 228-252
_verify_dns(domain, token, zone) ==
    LET name == RecordName(domain) IN
    IF zone[name] = ResolutionError
    THEN DnsResult(FALSE, [domain |-> domain, error |-> "resolution"])
    ELSE IF \E record \in zone[name].records : Strip(ToText(record)) = token
    THEN DnsResult(TRUE, [domain |-> domain, record_name |-> name])
    ELSE DnsResult(FALSE, [domain |-> domain, error |-> "Token not found in DNS records"])

\* views.py 161-164 and 175-176: the DNS method of the ownership step
OwnershipByDns(url, token, zone) ==
    LET res == _verify_dns(extract_domain_from_url(url), token, zone)
    IN  [status |-> PassFail(res.ok), details |-> res.details, raised |-> res.raised]

InitDns ==
    /\ InitTables({"s1"})

DnsCall(url, token, zone) ==
    /\ calc = NoCalc
    /\ calc' = [fn |-> "_verify_dns", url |-> url, token |-> token, zone |-> zone,
                result |-> OwnershipByDns(url, token, zone)]
    /\ UNCHANGED coreVars
    /\ UNCHANGED hookVars

NextDns ==
    \E url \in Urls, token \in Tokens :
        \E zone \in [NamesOf(url) -> DnsAnswers] : DnsCall(url, token, zone)

SpecDns == InitDns /\ [][NextDns]_vars

\* The scheduler over two registered servers, the probes it enqueues and the
\* owner's deactivate.
InitSweep == InitTables({"s1", "s2"})

NextSweep ==
    \/ Sweep
    \/ \E t \in DOMAIN hc : TaskLoad(t)
    \/ \E t \in DOMAIN hc, up \in BOOLEAN : TaskProbe(t, up)
    \/ \E t \in DOMAIN hc : TaskInsert(t)
    \/ \E t \in DOMAIN hc : TaskTotal(t)
    \/ \E t \in DOMAIN hc : TaskUp(t)
    \/ \E t \in DOMAIN hc : TaskSave(t)
    \/ \E s \in DOMAIN server : Deactivate(s)
    \/ Tick

SpecSweep == InitSweep /\ [][NextSweep]_vars

\* ================================================================ claims
ChecksOf(s) == {i \in DOMAIN healthChecks : healthChecks[i].server = s}
UpOf(s) == {i \in ChecksOf(s) : healthChecks[i].is_up}
AllInWindow(s) == \A i \in ChecksOf(s) : healthChecks[i].created_at >= now - WindowTicks
\* uptime, a fraction <<n, d>>, equals 100 * up / total
IsRatio(uptime, up, total) == uptime[1] * total = 100 * up * uptime[2]

\* C1: for every server at most one VerificationRequest has status pending or
\* in_progress, under every interleaving of Request operations; of two
\* concurrent Requests for one server one succeeds and the other is rejected
\* with a conflict naming the existing request's status.
C1_OneActiveRequest ==
    /\ \A s \in DOMAIN server : Cardinality(ExistingRequests(s)) <= 1
    /\ \A p, q \in DOMAIN rq :
          (p # q /\ rq[p].pc = "done" /\ rq[q].pc = "done" /\ rq[p].sid = rq[q].sid
                 /\ rq[p].result = "ok" /\ ExistingRequests(rq[p].sid) # {})
          => rq[q].result = "conflict"

\* C2: Server.verified is monotonic: once true, no step writes it back to false.
C2_VerifiedMonotonic ==
    [][\A s \in DOMAIN server : server[s].verified => server'[s].verified]_vars

\* C3: Server.verified changes from false to true only in the Finalize step of
\* a Complete whose request has all four checks passed.
FinalizeStep(c) == cp[c].pc = "finalize" /\ cp'[c].pc = "done"

C3_VerifiedOnlyByFinalize ==
    [][\A s \in DOMAIN server :
          (~server[s].verified /\ server'[s].verified)
          => \E c \in DOMAIN cp :
                /\ FinalizeStep(c)
                /\ cp[c].req.server = s
                /\ checks[cp[c].rid] = [t \in CheckTypes |-> "passed"]]_vars

\* C4: once its Request has returned, a VerificationRequest has exactly the
\* four check rows ownership, health, capabilities, security, all pending until
\* a Complete begins, and no later operation adds or removes a row.
C4_FourChecks ==
    \A r \in DOMAIN vreqs :
        Issued(r) =>
            /\ DOMAIN checks[r] = CheckTypes
            /\ vreqs[r].status = "pending" => \A t \in CheckTypes : checks[r][t] = "pending"

C4_Witness ==
    \E q \in DOMAIN rq :
        /\ rq[q].pc = "done" /\ rq[q].result = "ok"
        /\ \A t \in CheckTypes : checks[rq[q].rid][t] = "pending"
        /\ \E r \in DOMAIN vreqs : r # rq[q].rid /\ vreqs[r].status = "failed"
                                   /\ DOMAIN checks[r] = CheckTypes

\* C5: a VerificationRequest whose ownership check is failed has its health
\* and capabilities checks still pending.
C5_ShortCircuit ==
    \A r \in DOMAIN vreqs :
        (Issued(r) /\ checks[r]["ownership"] = "failed")
        => checks[r]["health"] = "pending" /\ checks[r]["capabilities"] = "pending"

\* C9: when all HealthCheck rows of a server lie in the window, after the last
\* insert Server.uptime is 100 * up rows / rows, whatever the insertion order.
C9_UptimeIsRatio ==
    \A s \in DOMAIN server :
        (ChecksOf(s) # {} /\ AllInWindow(s))
        => IsRatio(server[s].uptime, Cardinality(UpOf(s)), Cardinality(ChecksOf(s)))

C9_Witness ==
    \E s \in DOMAIN server :
        /\ AllInWindow(s)
        /\ Cardinality(ChecksOf(s)) = 2
        /\ healthChecks[Len(healthChecks)].server = s
        /\ ~healthChecks[Len(healthChecks)].is_up
        /\ Cardinality(UpOf(s)) = 1
        /\ ChecksOf(s) # DOMAIN healthChecks
        /\ server[s].uptime = <<50, 1>>

\* C10: after two concurrent health checks of one server have both finished,
\* Server.uptime is 100 * up / total over all its HealthCheck rows in the window.
NoHealthCheckRunning == \A t \in DOMAIN hc : hc[t].pc \in {"idle", "done"}

C10_UptimeAfterRace ==
    \A s \in DOMAIN server :
        (/\ NoHealthCheckRunning
         /\ \A c \in DOMAIN cp : cp[c].pc = "idle"
         /\ Cardinality(ChecksOf(s)) = 2
         /\ AllInWindow(s))
        => IsRatio(server[s].uptime, Cardinality(UpOf(s)), Cardinality(ChecksOf(s)))

\* no message or execution of deliver exists for delivery d
Quiescent(d) == \A e \in DOMAIN ex : ex[e].did # d \/ ex[e].pc = "done"
\* every answer so far was a 5xx response or a connection-level error
AllBad(d) == \A a \in wire[d].answers : a = ConnError \/ a >= 500
\* the automatic retries of d have run out on such an endpoint
Exhausted(d) ==
    /\ Quiescent(d)
    /\ wire[d].manual = 0
    /\ wire[d].posts >= 1
    /\ AllBad(d)

\* C6 as stated: without manual retry, a delivery whose endpoint answers every
\* attempt with a 5xx response or a connection error gets exactly 3 POSTs and
\* ends failed with attempt_count 3 and nothing scheduled.
C6_ThreeAttempts_AsStated ==
    \A d \in DOMAIN deliveries :
        Exhausted(d) =>
            /\ wire[d].posts = 3
            /\ deliveries[d].status = "failed"
            /\ deliveries[d].attempt_count = 3

\* C6 as amended: the same, for a delivery whose webhook was active at every
\* run of deliver; and without manual retry no delivery gets a 4th POST.
C6_ThreeAttempts ==
    \A d \in DOMAIN deliveries :
        wire[d].manual = 0 =>
            /\ wire[d].posts <= 3
            /\ (Exhausted(d) /\ wire[d].skipped = 0) =>
                  /\ wire[d].posts = 3
                  /\ deliveries[d].status = "failed"
                  /\ deliveries[d].attempt_count = 3

C6_Witness ==
    \E d \in DOMAIN deliveries :
        /\ Exhausted(d) /\ wire[d].skipped = 0
        /\ wire[d].posts = 3
        /\ wire[d].answers = {503, ConnError}
        /\ deliveries[d].status = "failed"

\* C7 as stated: the automatic retries of one delivery are scheduled after
\* 60 s, 120 s and 240 s.
C7_Delays_AsStated ==
    \A d \in DOMAIN deliveries :
        (Exhausted(d) /\ wire[d].skipped = 0) => wire[d].delays = <<60, 120, 240>>

\* C7 as amended: every automatic retry is scheduled with the countdown
\* 60 * 2^(attempt_count - 1), which is 60 s after the first attempt and 120 s
\* after the second; there is no third retry, so no 240 s delay.
C7_Delays ==
    \A d \in DOMAIN deliveries :
        /\ \A i \in DOMAIN wire[d].delays : wire[d].delays[i] \in {60, 120}
        /\ wire[d].manual = 0 =>
              /\ Len(wire[d].delays) <= 2
              /\ \A i \in DOMAIN wire[d].delays : wire[d].delays[i] = 60 * i
        /\ (Exhausted(d) /\ wire[d].skipped = 0) => wire[d].delays = <<60, 120>>
        /\ \A e \in DOMAIN ex :
              (ex[e].did = d /\ ex[e].pc = "queued" /\ ex[e].retries > 0
               /\ wire[d].manual = 0)
              => ex[e].countdown = 30 * 2 ^ deliveries[d].attempt_count

C7_Witness ==
    \E d \in DOMAIN deliveries :
        Exhausted(d) /\ wire[d].skipped = 0 /\ wire[d].delays = <<60, 120>>

\* C8: an attempt answered with a status below 500 schedules no retry,
\* whatever attempt_count is: its execution ends, no delay is recorded, no
\* other execution appears, and without manual retry none is left for it.
AnsweredStep(e) == ex[e].pc = "wait" /\ ex'[e].pc # "wait"

C8_NoRetryBelow500 ==
    [][\A e \in DOMAIN ex :
          LET d == ex[e].did IN
          (AnsweredStep(e) /\ wire'[d].last # ConnError /\ wire'[d].last < 500)
          => /\ ex'[e].pc = "done"
             /\ wire'[d].delays = wire[d].delays
             /\ \A o \in DOMAIN ex : o # e => ex'[o] = ex[o]
             /\ wire[d].manual = 0 => \A o \in DOMAIN ex : ex'[o].did # d \/ ex'[o].pc = "done"]_vars

C8_Witness ==
    \E d \in DOMAIN deliveries :
        /\ wire[d].last = 404
        /\ deliveries[d].attempt_count = 2
        /\ deliveries[d].status = "failed"
        /\ wire[d].delays = <<60>>
        /\ Quiescent(d)

\* the names a body reports: those of the named objects in a top-level array
\* or in the array under the key capabilities
NamesReported(body) ==
    IF body.kind \in {"list", "wrapper"}
    THEN {body.items[i].name : i \in {j \in DOMAIN body.items : body.items[j].kind = "named"}}
    ELSE {}

CapCalled == calc.fn = "_verify_capabilities"

\* C11: the capabilities check is passed if and only if the response has
\* status 200, its body is JSON and every registered name is among the names
\* reported; otherwise it is failed, and when names are missing the details
\* list exactly registered minus reported.
C11_CapabilitiesIff ==
    CapCalled =>
        LET want == /\ calc.answer = 200
                    /\ calc.body.kind # "notjson"
                    /\ calc.registered \subseteq NamesReported(calc.body)
        IN  /\ calc.result.status = (IF want THEN "passed" ELSE "failed")
            /\ (calc.answer = 200 /\ calc.body.kind # "notjson" /\ ~want)
               => calc.result.missing = calc.registered \ NamesReported(calc.body)

\* the positions of one Complete, in the order of CompleteVerificationView.post
CpRank(pc) ==
    CASE pc = "idle" -> 0 [] pc = "ownership" -> 1 [] pc = "health" -> 2
      [] pc = "capabilities" -> 3 [] pc = "finalize" -> 4 [] OTHER -> 5

\* C12: within one Complete the steps run in the order ownership, health,
\* capabilities, security; the last three run only after ownership passed;
\* when ownership passed and the health probe is down, capabilities and
\* security are still executed, the request ends failed and health is among
\* the failed checks of the response.
C12_StepOrder ==
    \A c \in DOMAIN cp :
        LET r == cp[c].rid
            st == checks[r]
        IN  /\ cp[c].pc = "ownership" =>
                  st["health"] = "pending" /\ st["capabilities"] = "pending"
                  /\ st["security"] = "pending"
            /\ cp[c].pc = "health" =>
                  st["ownership"] = "passed" /\ st["health"] = "pending"
                  /\ st["capabilities"] = "pending" /\ st["security"] = "pending"
            /\ cp[c].pc = "capabilities" =>
                  st["ownership"] = "passed" /\ st["health"] # "pending"
                  /\ st["capabilities"] = "pending" /\ st["security"] = "pending"
            /\ cp[c].pc = "finalize" =>
                  st["ownership"] = "passed" /\ st["health"] # "pending"
                  /\ st["capabilities"] # "pending" /\ st["security"] = "passed"
            /\ (cp[c].pc = "done" /\ st["ownership"] = "passed" /\ st["health"] = "failed") =>
                  /\ st["capabilities"] # "pending"
                  /\ st["security"] = "passed"
                  /\ vreqs[r].status = "failed"
                  /\ cp[c].result = "failed_checks"
                  /\ "health" \in cp[c].failed
            /\ (cp[c].pc = "done" /\ st["ownership"] = "failed") =>
                  st["health"] = "pending" /\ st["capabilities"] = "pending"
                  /\ st["security"] = "pending"

C12_Witness ==
    \E c \in DOMAIN cp :
        /\ cp[c].pc = "done"
        /\ cp[c].failed = {"health"}
        /\ checks[cp[c].rid] = [t \in CheckTypes |->
                                   IF t = "health" THEN "failed" ELSE "passed"]
        /\ vreqs[cp[c].rid].status = "failed"
        /\ \E i \in DOMAIN healthChecks : ~healthChecks[i].is_up

\* the items of a dict ordered by key
RECURSIVE SortedItems(_)
SortedItems(items) ==
    IF items = <<>> THEN <<>>
    ELSE LET m == CHOOSE i \in DOMAIN items :
                      \A j \in DOMAIN items : items[i][1] <= items[j][1]
             rest == [k \in 1..(Len(items) - 1) |-> IF k < m THEN items[k] ELSE items[k + 1]]
         IN  <<items[m]>> \o SortedItems(rest)

\* the canonical JSON of a payload: key-ordered, compact separators
CanonicalJson(items) == [compact |-> TRUE, items |-> SortedItems(items)]

\* C13: for every secret and payload the signature of a delivery attempt is
\* the HMAC-SHA256, under that secret, of the canonical JSON of the payload.
C13_SignatureRoundTrip ==
    calc.fn = "sign_payload" =>
        calc.result = HmacSha256(calc.secret, CanonicalJson(calc.payload))

\* C15: a registered server is unverified and inactive as long as no probe
\* result has been recorded for it.
C15_InactiveUntilProbed ==
    \A s \in DOMAIN server :
        ChecksOf(s) = {} => (~server[s].verified /\ ~server[s].is_active)

\* C14: HealthCheck rows are append-only: every step of the core leaves each
\* existing row as it is and adds at most one row at the end.
C14_AppendOnly ==
    [][/\ \A i \in DOMAIN healthChecks :
             i \in DOMAIN healthChecks' /\ healthChecks'[i] = healthChecks[i]
       /\ Len(healthChecks') <= Len(healthChecks) + 1]_vars

C14_Witness ==
    /\ \E c \in DOMAIN cp : cp[c].pc = "done" /\ cp[c].result \in {"verified", "failed_checks"}
    /\ "s2" \in DOMAIN server
    /\ Cardinality(ChecksOf("s2")) = 1
    /\ Cardinality(ChecksOf("s1")) = 2
    /\ NoHealthCheckRunning

\* the status changes of the state machine of a VerificationRequest
StatusSteps ==
    {<<"pending", "in_progress">>, <<"in_progress", "completed">>,
     <<"in_progress", "failed">>}

\* C16: the status of a VerificationRequest changes only along pending ->
\* in_progress -> completed or failed; completed and failed are terminal, also
\* under a second or concurrent Complete of the same request.
C16_StatusMachine ==
    [][\A r \in DOMAIN vreqs :
          vreqs'[r].status # vreqs[r].status
          => <<vreqs[r].status, vreqs'[r].status>> \in StatusSteps]_vars

\* the step in which Request q runs its guard
GuardStep(q) == rq[q].pc = "idle" /\ rq'[q].pc # "idle"

\* C17: a Request for a server that has a VerificationRequest in status
\* pending or in_progress is rejected with a conflict that states the status
\* of an existing request; it creates no request and no check and changes no
\* existing row.
C17_ConflictRejected ==
    [][\A q \in DOMAIN rq :
          (GuardStep(q) /\ ExistingRequests(rq'[q].sid) # {})
          => /\ rq'[q].pc = "done"
             /\ rq'[q].result = "conflict"
             /\ rq'[q].seen \in {vreqs[r].status : r \in ExistingRequests(rq'[q].sid)}
             /\ rq'[q].seen \in {"pending", "in_progress"}
             /\ UNCHANGED <<vreqs, checks, server, healthChecks>>]_vars

C17_Witness ==
    \E q \in DOMAIN rq :
        /\ rq[q].pc = "done"
        /\ rq[q].result = "conflict"
        /\ rq[q].seen = "in_progress"
        /\ Len(vreqs) = 1
        /\ DOMAIN checks[1] = CheckTypes

\* the step in which Complete c loads the request and runs its guards
BeginStep(c) == cp[c].pc = "idle" /\ cp'[c].pc # "idle"

\* C18: a Complete of a request whose status is neither pending nor
\* in_progress, or whose token has expired, is rejected, runs no check and
\* changes no row; the expired token has its own error.
C18_RejectedCompleteChangesNothing ==
    [][\A c \in DOMAIN cp :
          BeginStep(c) =>
             LET req == vreqs[cp'[c].rid] IN
             /\ req.status \notin {"pending", "in_progress"}
                => /\ cp'[c].pc = "done" /\ cp'[c].result = "not_found"
                   /\ UNCHANGED <<vreqs, checks, server, healthChecks>>
             /\ (req.status \in {"pending", "in_progress"} /\ now >= req.expiry)
                => /\ cp'[c].pc = "done" /\ cp'[c].result = "expired"
                   /\ UNCHANGED <<vreqs, checks, server, healthChecks>>]_vars

C18_Witness ==
    \E c \in DOMAIN cp :
        /\ cp[c].pc = "done"
        /\ cp[c].result = "expired"
        /\ vreqs[cp[c].rid].status = "pending"
        /\ now = vreqs[cp[c].rid].expiry
        /\ \A t \in CheckTypes : checks[cp[c].rid][t] = "pending"

\* the deliveries a step created
NewDeliveries == (Len(deliveries) + 1)..Len(deliveries')

\* C19: trigger creates, for each webhook that is active and subscribed to
\* the event, exactly one delivery with status pending and attempt_count 0 and
\* one queued deliver for it; for every other webhook it creates none.
C19_TriggerFanout ==
    [][Len(deliveries') # Len(deliveries) =>
          LET event == deliveries'[Len(deliveries')].event IN
          /\ Len(deliveries') > Len(deliveries)
          /\ \A w \in DOMAIN webhooks :
                Cardinality({d \in NewDeliveries : deliveries'[d].webhook = w})
                   = IF webhooks[w].active /\ event \in webhooks[w].events THEN 1 ELSE 0
          /\ \A d \in NewDeliveries :
                /\ deliveries'[d].event = event
                /\ deliveries'[d].status = "pending"
                /\ deliveries'[d].attempt_count = 0
                /\ Cardinality({e \in DOMAIN ex : ex'[e].did = d}) = 1
                /\ \A e \in DOMAIN ex : ex'[e].did = d =>
                      ex'[e].pc = "queued" /\ ex[e].pc = "idle"
          /\ \A d \in DOMAIN deliveries : deliveries'[d] = deliveries[d]]_vars

C19_Witness ==
    /\ Len(deliveries) = 2
    /\ {deliveries[d].webhook : d \in DOMAIN deliveries} = {"w2", "w3"}
    /\ \A d \in DOMAIN deliveries :
          deliveries[d].event = "server.created" /\ deliveries[d].status = "pending"
    /\ ~webhooks["w1"].active
    /\ \A e \in DOMAIN ex : ex[e].pc = "queued"

\* the step of execution e that follows the load of an inactive webhook
InactiveStep(e) == ex[e].pc = "loaded" /\ ~ex[e].active /\ ex'[e].pc # "loaded"

\* C20: when deliver runs for a delivery whose webhook is inactive, no HTTP
\* request is sent, attempt_count is not incremented (the run stores the
\* value it loaded, which without manual retry is the stored one), the
\* delivery becomes failed and no retry is scheduled.
C20_InactiveSkips ==
    [][\A e \in DOMAIN ex :
          InactiveStep(e) =>
             LET d == ex[e].did IN
             /\ ex'[e].pc = "done"
             /\ wire'[d].posts = wire[d].posts
             /\ deliveries'[d].attempt_count = ex[e].dlv.attempt_count
             /\ wire[d].manual = 0 =>
                   deliveries'[d].attempt_count = deliveries[d].attempt_count
             /\ deliveries'[d].status = "failed"
             /\ wire'[d].delays = wire[d].delays
             /\ \A o \in DOMAIN ex : o # e => ex'[o] = ex[o]]_vars

C20_Witness ==
    \E d \in DOMAIN deliveries :
        /\ wire[d].skipped = 1
        /\ wire[d].posts = 1
        /\ wire[d].delays = <<60>>
        /\ wire[d].manual = 0
        /\ deliveries[d].attempt_count = 1
        /\ deliveries[d].status = "failed"
        /\ Quiescent(d)

\* C21: attempt_count is incremented and stored before each POST, so the
\* number of POSTs sent for a delivery never exceeds its stored attempt_count,
\* also when several executions of deliver for one delivery overlap.
C21_PostsWithinAttempts ==
    \A d \in DOMAIN deliveries : wire[d].posts <= deliveries[d].attempt_count

\* C22: after an attempt that received a response, response_code is the
\* response's status code and status is success exactly when the code is in
\* 200..299, failed otherwise; after an attempt that ended in a
\* connection-level error the status is failed.
C22_ResponseRecorded ==
    [][\A e \in DOMAIN ex :
          AnsweredStep(e) =>
             LET d == ex[e].did
                 a == wire'[d].last
             IN  IF a = ConnError
                 THEN deliveries'[d].status = "failed"
                 ELSE /\ deliveries'[d].response_code = a
                      /\ deliveries'[d].status = "success" <=> a \in 200..299
                      /\ deliveries'[d].status = "failed" <=> a \notin 200..299]_vars

C22_Witness ==
    \E d \in DOMAIN deliveries :
        /\ wire[d].answers = {302, ConnError, 200}
        /\ wire[d].last = 200
        /\ deliveries[d].response_code = 200
        /\ deliveries[d].status = "success"
        /\ Quiescent(d)

\* the step in which a manual retry of delivery d is accepted
ManualStep(d) == wire'[d].manual = wire[d].manual + 1

\* C23: a manual retry is accepted only for a delivery that is failed and
\* whose webhook is active; it queues a run for the same delivery row and
\* leaves attempt_count as it is; and no step of any operation makes the
\* attempt_count of a delivery smaller.
C23_ManualRetry ==
    [][\A d \in DOMAIN deliveries :
          /\ ManualStep(d) =>
                /\ deliveries[d].status = "failed"
                /\ webhooks[deliveries[d].webhook].active
                /\ deliveries' = deliveries
                /\ \E e \in DOMAIN ex : ex[e].pc = "idle" /\ ex'[e].did = d
          /\ deliveries'[d].attempt_count >= deliveries[d].attempt_count]_vars

\* the step in which task t runs the last statement of HealthCheck.save
SaveStep(t) == hc[t].pc = "save" /\ hc'[t].pc # "save"

\* what an insert of a check with result is_up at created_at is to do to a
\* server row: the two flips, no change of is_active and status_message in
\* the two other cases, last_checked in all cases
InsertEffect(before, after, is_up, created_at) ==
    /\ (~is_up /\ before.is_active) => ~after.is_active
    /\ (is_up /\ ~before.is_active) => after.is_active
    /\ (is_up = before.is_active) =>
          /\ after.is_active = before.is_active
          /\ after.status_message = before.status_message
    /\ after.last_checked = created_at

\* C24: on every HealthCheck insert for a server: a down check of an active
\* server makes it inactive, an up check of an inactive server makes it
\* active, in the two other cases is_active and status_message stay as they
\* are, and in all cases last_checked becomes the timestamp of the check.
C24_InsertEffect ==
    [][/\ \A t \in DOMAIN hc :
             SaveStep(t) =>
                InsertEffect(server[hc[t].sid], server'[hc[t].sid], hc[t].is_up,
                             healthChecks[hc[t].row].created_at)
       /\ \A c \in DOMAIN cp :
             (cp[c].pc = "health" /\ cp'[c].pc # "health") =>
                LET row == healthChecks'[Len(healthChecks')]
                IN  InsertEffect(server[row.server], server'[row.server], row.is_up,
                                 row.created_at)]_vars

\* the task slots a step fills with a queued probe of server s
Enqueued(s) == {t \in DOMAIN hc : hc[t].pc = "idle" /\ hc'[t].pc = "queued" /\ hc'[t].sid = s}

\* a step of the scheduler: probes are enqueued and no Server row is written
SweepStep ==
    /\ server' = server
    /\ \E t \in DOMAIN hc : hc[t].pc = "idle" /\ hc'[t].pc = "queued"

\* C25: a sweep enqueues exactly one health probe for every server that is
\* active and whose last_checked is earlier than now minus the check interval,
\* and none for any other server.
C25_SweepSelection ==
    [][SweepStep =>
          /\ \A s \in DOMAIN server :
                Cardinality(Enqueued(s)) =
                   IF server[s].is_active /\ server[s].last_checked < now - CheckInterval
                   THEN 1 ELSE 0
          /\ \A t \in DOMAIN hc :
                IF hc[t].pc = "idle" /\ hc'[t].pc = "queued"
                THEN hc'[t].kind = "scheduled" /\ hc'[t].sid \in DOMAIN server
                ELSE hc'[t] = hc[t]
          /\ UNCHANGED <<healthChecks, vreqs, checks, now>>]_vars

C25_Witness ==
    /\ hc[1].pc = "queued" /\ hc[1].kind = "scheduled" /\ hc[1].sid = "s1"
    /\ hc[2].pc = "idle"
    /\ server["s1"].status_message = ""
    /\ ~server["s2"].is_active
    /\ server["s2"].last_checked < now - CheckInterval
    /\ healthChecks = <<>>

\* C26: in the Finalize step of a Complete, if all four checks are passed the
\* request becomes completed with completed_at set and Server.verified
\* becomes true; otherwise the request becomes failed and the response lists
\* exactly the checks whose status is failed.
C26_Finalize ==
    [][\A c \in DOMAIN cp :
          FinalizeStep(c) =>
             LET r == cp[c].rid
                 s == vreqs[r].server
             IN  IF \A t \in CheckTypes : checks[r][t] = "passed"
                 THEN /\ vreqs'[r].status = "completed"
                      /\ vreqs'[r].completed_at = now
                      /\ server'[s].verified
                      /\ cp'[c].result = "verified"
                 ELSE /\ vreqs'[r].status = "failed"
                      /\ cp'[c].result = "failed_checks"
                      /\ cp'[c].failed = {t \in CheckTypes : checks[r][t] = "failed"}
                      /\ cp'[c].failed # {}
                      /\ server'[s].verified = server[s].verified]_vars

C26_Witness ==
    \E c \in DOMAIN cp :
        /\ cp[c].pc = "done"
        /\ cp[c].result = "failed_checks"
        /\ cp[c].failed = {"health", "capabilities"}
        /\ vreqs[cp[c].rid].status = "failed"
        /\ vreqs[cp[c].rid].completed_at = NoTime
        /\ ~server[vreqs[cp[c].rid].server].verified

\* the name _mcp-verification.<domain of url>
DomainRecordName(url) == RecordName([host |-> url.host, port |-> NoPort])

\* C27: with the DNS method the ownership check is passed if and only if a
\* TXT record resolved at _mcp-verification.<domain of server.url> has the
\* token as its value; on success the details hold the domain and the record
\* name; a resolution error gives a failed check with the error in the
\* details, and no exception reaches the caller.
C27_DnsIff ==
    calc.fn = "_verify_dns" =>
        LET name == DomainRecordName(calc.url)
            want == /\ calc.zone[name] # ResolutionError
                    /\ calc.token \in calc.zone[name].records
        IN  /\ calc.result.status = PassFail(want)
            /\ want => /\ calc.result.details.domain.host = calc.url.host
                       /\ calc.result.details.record_name = name
            /\ calc.zone[name] = ResolutionError =>
                  "error" \in DOMAIN calc.result.details
            /\ ~calc.result.raised

\* a Complete of request r is between its guards and its last save
InFlight(r) == \E c \in DOMAIN cp : cp[c].rid = r /\ cp[c].pc \notin {"idle", "done"}

\* Server s has a request that blocks every new Request (its status is
\* pending or in_progress) and that no Complete can end: its token has
\* expired and no Complete of it is under way.
DeadEnd(s) ==
    \E r \in ExistingRequests(s) :
        /\ Issued(r)
        /\ ~is_token_valid(vreqs[r], now)
        /\ ~InFlight(r)

\* in a dead end every Request for s is rejected and every Complete of the
\* blocking request is rejected without a change, so no step leaves it
DeadEndIsPermanent ==
    [][\A s \in DOMAIN server :
          DeadEnd(s) =>
             /\ DeadEnd(s)'
             /\ \A q \in DOMAIN rq :
                   (GuardStep(q) /\ rq'[q].sid = s) => rq'[q].result = "conflict"]_vars

\* C28: no server is locked out of verification for good: from every
\* reachable state, also one in which the pending or in_progress request of
\* the server has an expired token, the owner's Requests and Completes can
\* lead to a new Request that succeeds; so no reachable state is a dead end.
C28_NoLockout == \A s \in DOMAIN server : ~DeadEnd(s)

\* C29: in every reachable state a VerificationRequest with status completed
\* has all four checks passed, also when two Completes of the same request
\* run concurrently.
C29_CompletedAllPassed ==
    \A r \in DOMAIN vreqs :
        vreqs[r].status = "completed" => \A t \in CheckTypes : checks[r][t] = "passed"

\* the step in which Complete c returns after it had set in_progress
EndStep(c) == cp[c].pc \notin {"idle", "done"} /\ cp'[c].pc = "done"

TerminalStatuses == {"completed", "failed"}

\* the status of the r-th request, once it exists
StatusOf(r) == IF r \in DOMAIN vreqs THEN vreqs[r].status ELSE "none"

\* C30: every Complete that passed its guards and set the request to
\* in_progress returns, and when it returns the request is completed or
\* failed; no VerificationRequest stays in_progress forever.
C30_CompleteEnds ==
    /\ [][\A c \in DOMAIN cp :
             EndStep(c) => vreqs'[cp[c].rid].status \in TerminalStatuses]_vars
    /\ \A c \in 1..MaxCompletes :
          (cp[c].pc \notin {"idle", "done"}) ~> (cp[c].pc = "done")
    /\ \A r \in 1..MaxRequests :
          (StatusOf(r) = "in_progress") ~> (StatusOf(r) \in TerminalStatuses)

C30_Witness ==
    \E c \in DOMAIN cp :
        /\ cp[c].pc = "done"
        /\ cp[c].result = "verified"
        /\ vreqs[cp[c].rid].status = "completed"
        /\ \A r \in DOMAIN vreqs : vreqs[r].status # "in_progress"

\* server s is as its owner's deactivate left it
OwnerDeactivated(srv) == ~srv.is_active /\ srv.status_message = "Deactivated by owner"

\* C31: a server deactivated by its owner stays inactive, with the owner's
\* status_message, until the owner activates it: no health check recorded by
\* a probe task or by a Complete sets is_active back to true or replaces the
\* message.
C31_OwnerDeactivationKept ==
    [][\A s \in DOMAIN server :
          OwnerDeactivated(server[s]) =>
             \/ OwnerDeactivated(server'[s])
             \/ server'[s].status_message = "Activated by owner"]_vars

\* a health task for server s is queued or running
ProbeInFlight(s) == \E t \in DOMAIN hc : hc[t].sid = s /\ hc[t].pc \notin {"idle", "done"}


\* C32: the scheduler enqueues no probe for a server that is inactive at
\* sweep time, so with no owner activate and no Complete a server that is
\* inactive with no probe in flight (as a down health check leaves it) gets
\* no probe and stays inactive in every later state, whatever /health
\* would answer.
C32_InactiveStays ==
    [][\A s \in DOMAIN server :
          (~server[s].is_active /\ ~ProbeInFlight(s)) =>
             (~server'[s].is_active /\ ~ProbeInFlight(s)')]_vars

C32_Witness ==
    /\ ~server["s1"].is_active
    /\ server["s1"].status_message = "Down during automatic health check"
    /\ ~ProbeInFlight("s1")
    /\ \E t \in DOMAIN hc : hc[t].pc = "done"
    /\ server["s2"].is_active
    /\ ProbeInFlight("s2")

\* the executions for delivery d that are queued (for a first run, after a
\* retry's countdown or by a manual retry) or running
LiveRuns(d) == {e \in DOMAIN ex : ex[e].did = d /\ ex[e].pc \notin {"idle", "done"}}

\* C33: for each delivery at most one execution of deliver is queued, waiting
\* out a retry's countdown or running at any time; a manual retry is not
\* accepted while an automatic retry of the delivery is scheduled, and two
\* manual retries are not both enqueued.
C33_OneRunPerDelivery ==
    \A d \in DOMAIN deliveries : Cardinality(LiveRuns(d)) <= 1

\* C34: status success is terminal: once a delivery has status success its
\* status never changes again and no further POST is sent for it, under any
\* interleaving of automatic and manual retries.
C34_SuccessTerminal ==
    [][\A d \in DOMAIN deliveries :
          deliveries[d].status = "success" =>
             /\ deliveries'[d].status = "success"
             /\ wire'[d].posts = wire[d].posts]_vars

\* two payloads hold the same key-value pairs
SameMap(p, q) == {p[i] : i \in DOMAIN p} = {q[i] : i \in DOMAIN q}

\* C35: two payloads that are equal as key-value maps get the same signature
\* under the same secret whatever the order of their keys, and the bytes that
\* are signed are the bytes sent as the body of the POST.
C35_SignedAsSent ==
    calc.fn = "sign_payload" =>
       /\ \A q \in Payloads :
             SameMap(calc.payload, q) => sign_payload(q, calc.secret) = calc.result
       /\ calc.result = HmacSha256(calc.secret, JsonBody(calc.payload))

\* the step in which execution e signs and sends its POST
SendStep(e) == ex[e].pc = "send" /\ ex'[e].pc = "wait"
\* the step in which execution e loads the delivery and its webhook
LoadStep(e) == ex[e].pc = "queued" /\ ex'[e].pc = "loaded"
StoredSecret(d) == webhooks[deliveries[d].webhook].secret

\* C36 as stated: every stored Webhook has a non-empty secret, and every
\* POST is signed with the secret that is stored when it is sent, so that no
\* attempt after a regenerate_secret is signed with the old secret.
C36_StoredSecretSigns ==
    [][/\ \A w \in DOMAIN webhooks : webhooks'[w].secret # EmptySecret
       /\ \A e \in DOMAIN ex :
             SendStep(e) =>
                wire'[ex[e].did].keys = wire[ex[e].did].keys \cup {StoredSecret(ex[e].did)}]_vars

\* C36: every stored Webhook has a non-empty secret; every run of deliver,
\* first attempt or automatic or manual retry, reads the secret that is
\* stored when it loads the webhook, holds it until it sends and signs its
\* POST with it, so a run that loads after a regenerate_secret never signs
\* with the old secret.
C36_LoadedSecretSigns ==
    [][/\ \A w \in DOMAIN webhooks : webhooks'[w].secret # EmptySecret
       /\ \A e \in DOMAIN ex :
             /\ LoadStep(e) => ex'[e].secret = StoredSecret(ex[e].did)
             /\ (ex[e].pc \in {"loaded", "send"} /\ ex'[e].pc \in {"loaded", "send"})
                   => ex'[e].secret = ex[e].secret
             /\ SendStep(e) =>
                   wire'[ex[e].did].keys = wire[ex[e].did].keys \cup {ex[e].secret}]_vars

\* a delivery created under the first secret whose retry, loaded after a
\* regeneration, was signed with the second
C36_Witness ==
    \E d \in DOMAIN deliveries :
        /\ wire[d].keys = {1, 2}
        /\ wire[d].posts = 2
        /\ StoredSecret(d) = 2
        /\ \E e \in DOMAIN ex : ex[e].did = d /\ ex[e].pc = "wait" /\ ex[e].secret = 2

\* C37: the Finalize of a Complete changes only the verified field of the
\* Server row: is_active, uptime, last_checked and status_message, as a
\* health check committed since the Complete began has left them, are not
\* overwritten.
C37_FinalizeFrame ==
    [][\A c \in DOMAIN cp :
          FinalizeStep(c) =>
             \A s \in DOMAIN server :
                /\ server'[s].is_active = server[s].is_active
                /\ server'[s].uptime = server[s].uptime
                /\ server'[s].last_checked = server[s].last_checked
                /\ server'[s].status_message = server[s].status_message]_vars

\* the status of delivery d, "none" before it is created
DeliveryStatus(d) == IF d \in DOMAIN deliveries THEN deliveries[d].status ELSE "none"

\* C38: every delivery created with status pending eventually has status
\* success or failed, provided its enqueued execution is run and the HTTP
\* call returns or times out.
C38_PendingEnds ==
    \A d \in 1..MaxDeliveries :
        (DeliveryStatus(d) = "pending") ~> (DeliveryStatus(d) \in {"success", "failed"})

\* a delivery that left pending by a connection error and ended in success
\* on its third attempt
C38_Witness ==
    \E d \in DOMAIN deliveries :
        /\ deliveries[d].status = "success"
        /\ deliveries[d].attempt_count = 3
        /\ wire[d].posts = 3
        /\ ConnError \in wire[d].answers
        /\ wire[d].manual = 0
        /\ LiveRuns(d) = {}

C40_DeliveryOrigin ==
    [][\A d \in NewDeliveries :
          LET w == deliveries'[d].webhook IN
          /\ webhooks[w].active
          /\ deliveries'[d].event \in webhooks[w].events
          /\ deliveries'[d].event \in EVENT_CHOICES]_vars

====
